---- MODULE Spec2Model ----
(***************************************************************************)
(* ScoreMJ: scored_merge, the tiered score-annotated join, in its pandas   *)
(* variant (src/python/pandas.py) and its pyspark variant                  *)
(* (src/python/pyspark.py).  A data frame is a record                      *)
(*   [columns |-> sequence of column names, rows |-> sequence of rows]     *)
(* where a row is the sequence of its values, aligned with columns.        *)
(* One call of scored_merge is one behaviour: Init draws the arguments,    *)
(* each loop iteration is one step, the combination of the batches and     *)
(* the return is the last step.                                            *)
(***************************************************************************)
EXTENDS Integers, Sequences, FiniteSets, TLC

VARIABLES variant, left, right, merge_keys, suffix, min_score,
          i, merge_result, final_result, outcome, joins, pc

vars == <<variant, left, right, merge_keys, suffix, min_score,
          i, merge_result, final_result, outcome, joins, pc>>

args == <<variant, left, right, merge_keys, suffix, min_score>>

(* ------------------------------ bounds -------------------------------- *)

MaxKeys == 2

MaxRows == 1

(* ------------------------------ values -------------------------------- *)

\* None / NaN / SQL NULL in a cell
Null == 0

KeyVals == {Null, 1}

\* column names of the key pairs: the left names, and the right names used
\* when the mapping pairs differently named columns
KeyNames == <<"id", "code", "key3", "key4">>

AltNames == <<"rid", "rcode", "rkey3", "rkey4">>

PandasSuffix == <<"left", "rigth">>

SparkSuffix == <<"_left", "_right">>

EmptyFrame == [columns |-> <<>>, rows |-> <<>>]

(* ------------------------------ helpers ------------------------------- *)

Range(s) == {s[k] : k \in 1..Len(s)}

HasColumn(cols, name) == \E k \in 1..Len(cols) : cols[k] = name

\* position of the first column called name
ColIndex(cols, name) ==
    CHOOSE k \in 1..Len(cols) :
        cols[k] = name /\ \A m \in 1..(k - 1) : cols[m] # name

Cell(frame, row, name) == row[ColIndex(frame.columns, name)]

HasDuplicates(cols) ==
    \E a, b \in 1..Len(cols) : a # b /\ cols[a] = cols[b]

RECURSIVE Flatten(_)
Flatten(ss) == IF ss = <<>> THEN <<>> ELSE Head(ss) \o Flatten(Tail(ss))

\* left_keys = list(merge_keys.keys()); right_keys = list(merge_keys.values())
left_keys == [j \in 1..Len(merge_keys) |-> merge_keys[j].l]

right_keys == [j \in 1..Len(merge_keys) |-> merge_keys[j].r]

n_keys == Len(merge_keys)

Prefix(s, k) == SubSeq(s, 1, k)

Indices(m) == [k \in 1..m |-> k]

(* --------------------------- pandas primitives ------------------------ *)

\* pd.merge compares keys by value and pairs a missing key with a missing
\* key: rows whose keys are both null are matched against each other
PdKeyEq(a, b) == a = b

\* left[kl] == right[kr] in a join condition: SQL equality, never true
\* when either side is null
SqlEq(a, b) == a # Null /\ b # Null /\ a = b

\* the key comparison of the engine: SQL equality, or pandas'
Eq(a, b, sql) == IF sql THEN SqlEq(a, b) ELSE PdKeyEq(a, b)

\* the (left row, right row) index pairs of an inner join on the column
\* pairs lon[j] = ron[j], in left-major order
MatchingPairs(l, r, lon, ron, sql) ==
    Flatten([p \in 1..Len(l.rows) |->
        LET hits == SelectSeq(Indices(Len(r.rows)), LAMBDA q :
                        \A j \in 1..Len(lon) :
                            Eq(Cell(l, l.rows[p], lon[j]),
                               Cell(r, r.rows[q], ron[j]), sql))
        IN [k \in 1..Len(hits) |-> <<p, hits[k]>>]])

\* pd.merge(l, r, left_on=lon, right_on=ron, how="inner", suffixes=sfx):
\* a right key column with the name of its left key column is dropped (the
\* pair becomes one column); a remaining name present on both sides gets
\* sfx[1] on the left and sfx[2] on the right
PdMerge(l, r, lon, ron, sfx) ==
    LET dropped == {ron[j] : j \in {m \in 1..Len(lon) : lon[m] = ron[m]}}
        keep    == SelectSeq(Indices(Len(r.columns)),
                             LAMBDA k : r.columns[k] \notin dropped)
        overlap == Range(l.columns) \cap {r.columns[keep[k]] : k \in 1..Len(keep)}
        lnames  == [k \in 1..Len(l.columns) |->
                       IF l.columns[k] \in overlap
                       THEN l.columns[k] \o sfx[1] ELSE l.columns[k]]
        rnames  == [k \in 1..Len(keep) |->
                       IF r.columns[keep[k]] \in overlap
                       THEN r.columns[keep[k]] \o sfx[2] ELSE r.columns[keep[k]]]
        pairs   == MatchingPairs(l, r, lon, ron, FALSE)
    IN [columns |-> lnames \o rnames,
        rows    |-> [k \in 1..Len(pairs) |->
                        l.rows[pairs[k][1]] \o
                        [m \in 1..Len(keep) |-> r.rows[pairs[k][2]][keep[m]]]]]

\* frame[name] = v: overwrite the column, or append it
PdSetColumn(frame, name, v) ==
    IF HasColumn(frame.columns, name)
    THEN [columns |-> frame.columns,
          rows    |-> [k \in 1..Len(frame.rows) |->
                          [frame.rows[k] EXCEPT ![ColIndex(frame.columns, name)] = v]]]
    ELSE [columns |-> Append(frame.columns, name),
          rows    |-> [k \in 1..Len(frame.rows) |-> Append(frame.rows[k], v)]]

\* the union of the frames' columns, in order of first appearance
RECURSIVE UnionColumns(_)
UnionColumns(frames) ==
    IF frames = <<>> THEN <<>>
    ELSE LET rest == UnionColumns(Tail(frames))
         IN Head(frames).columns \o
            SelectSeq(rest, LAMBDA c : ~HasColumn(Head(frames).columns, c))

\* a row of frame laid out on cols, NaN where frame has no such column
Reindex(frame, row, cols) ==
    [k \in 1..Len(cols) |->
        IF HasColumn(frame.columns, cols[k]) THEN Cell(frame, row, cols[k]) ELSE Null]

\* pd.concat(frames, ignore_index=True) of a non-empty list
PdConcat(frames) ==
    LET cols == UnionColumns(frames)
    IN [columns |-> cols,
        rows    |-> Flatten([b \in 1..Len(frames) |->
                        [k \in 1..Len(frames[b].rows) |->
                            Reindex(frames[b], frames[b].rows[k], cols)]])]

(* --------------------------- pyspark primitives ----------------------- *)

\* l.join(r, [l[lon[j]] == r[ron[j]] ...], how='inner'): every column of
\* both sides is kept under its own name
SparkJoin(l, r, lon, ron) ==
    LET pairs == MatchingPairs(l, r, lon, ron, TRUE)
    IN [columns |-> l.columns \o r.columns,
        rows    |-> [k \in 1..Len(pairs) |->
                        l.rows[pairs[k][1]] \o r.rows[pairs[k][2]]]]

\* DataFrame.join indexes on[0] to tell names from Columns: an empty
\* condition list raises IndexError
SparkJoinRaises(lon) == Len(lon) = 0

\* frame.withColumn(name, lit(v)): replace the columns called name, or append
WithColumn(frame, name, v) ==
    IF HasColumn(frame.columns, name)
    THEN [columns |-> frame.columns,
          rows    |-> [k \in 1..Len(frame.rows) |->
                          [m \in 1..Len(frame.columns) |->
                              IF frame.columns[m] = name THEN v
                              ELSE frame.rows[k][m]]]]
    ELSE [columns |-> Append(frame.columns, name),
          rows    |-> [k \in 1..Len(frame.rows) |-> Append(frame.rows[k], v)]]

\* frame.withColumnRenamed(existing, new): a no-op when no column is
\* called existing
WithColumnRenamed(frame, existing, new) ==
    [columns |-> [k \in 1..Len(frame.columns) |->
                     IF frame.columns[k] = existing THEN new ELSE frame.columns[k]],
     rows    |-> frame.rows]

\* a.unionByName(b) raises AnalysisException on a duplicated column name
\* on either side, or when the two sides' names differ
UnionByNameRaises(a, b) ==
    \/ HasDuplicates(a.columns)
    \/ HasDuplicates(b.columns)
    \/ Range(a.columns) # Range(b.columns)

\* unionByName with the argument's rows put first
UnionByNamePrepend(a, b) ==
    [columns |-> a.columns,
     rows    |-> [k \in 1..Len(b.rows) |->
                     [m \in 1..Len(a.columns) |->
                         Cell(b, b.rows[k], a.columns[m])]] \o a.rows]

\* a.unionByName(b): b's columns resolved by name into a's layout, a's rows
\* followed by b's
UnionByName(a, b) ==
    [columns |-> a.columns,
     rows    |-> a.rows \o [k \in 1..Len(b.rows) |->
                               [m \in 1..Len(a.columns) |->
                                   Cell(b, b.rows[k], a.columns[m])]]]

(* ------------------------ scored_merge, pandas ------------------------ *)

\* the loop's range(n_keys, min_score, -1) still has the value i
PandasInRange(k) == k > min_score

\* one iteration of the loop: the batch of tier k
PandasPartialMerge(k) ==
    PdSetColumn(PdMerge(left, right, Prefix(left_keys, k), Prefix(right_keys, k),
                        suffix),
                "merge_score", k)

PandasTier ==
    /\ pc = "loop"
    /\ variant = "pandas"
    /\ PandasInRange(i)
    /\ merge_result' = Append(merge_result, PandasPartialMerge(i))
    /\ joins' = joins + 1
    /\ i' = i - 1
    /\ UNCHANGED <<args, final_result, outcome, pc>>

\* pd.concat(merge_result, ignore_index=True) and the return; pd.concat of
\* an empty list raises ValueError("No objects to concatenate")
PandasReturn ==
    /\ pc = "loop"
    /\ variant = "pandas"
    /\ ~PandasInRange(i)
    /\ IF merge_result = <<>>
       THEN outcome' = "ValueError" /\ UNCHANGED final_result
       ELSE outcome' = "ok" /\ final_result' = PdConcat(merge_result)
    /\ pc' = "done"
    /\ UNCHANGED <<args, i, merge_result, joins>>

(* ------------------------ scored_merge, pyspark ----------------------- *)

\* the loop's range(n_keys, min_score - 1, -1) still has the value i
SparkInRange(k) == k > min_score - 1

\* the renaming loop over the names common to both frames
RECURSIVE RenameConflicts(_, _, _, _)
RenameConflicts(frame, cols, lk, rk) ==
    IF cols = {} THEN frame
    ELSE LET col == CHOOSE c \in cols : TRUE
             next == IF col \notin Range(lk) /\ col \notin Range(rk)
                     THEN WithColumnRenamed(frame, col \o suffix[1], col)
                     ELSE frame
         IN RenameConflicts(next, cols \ {col}, lk, rk)

\* the score literal one below the tier
ScoreLitOff(k) == k - 1

\* the literal of the merge_score column of tier k
ScoreLit(k) == k

\* one iteration of the loop: the batch of tier k
SparkPartialMerge(k) ==
    LET current_left_keys  == Prefix(left_keys, k)
        current_right_keys == Prefix(right_keys, k)
        joined == SparkJoin(left, right, current_left_keys, current_right_keys)
        scored == WithColumn(joined, "merge_score", ScoreLit(k))
    IN RenameConflicts(scored, Range(left.columns) \cap Range(right.columns),
                       current_left_keys, current_right_keys)

SparkTier ==
    /\ pc = "loop"
    /\ variant = "pyspark"
    /\ SparkInRange(i)
    /\ IF SparkJoinRaises(Prefix(left_keys, i))
       THEN /\ outcome' = "IndexError"
            /\ pc' = "done"
            /\ UNCHANGED <<i, merge_result, joins>>
       ELSE /\ merge_result' = Append(merge_result, SparkPartialMerge(i))
            /\ joins' = joins + 1
            /\ i' = i - 1
            /\ UNCHANGED <<outcome, pc>>
    /\ UNCHANGED <<args, final_result>>

\* final_result = merge_results[0]; for df in merge_results[1:]: unionByName
RECURSIVE UnionAll(_, _)
UnionAll(acc, rest) ==
    IF rest = <<>> THEN [raised |-> FALSE, frame |-> acc]
    ELSE IF UnionByNameRaises(acc, Head(rest))
         THEN [raised |-> TRUE, frame |-> acc]
         ELSE UnionAll(UnionByName(acc, Head(rest)), Tail(rest))

\* the combination of the batches and the return; with no batch, an empty
\* frame of left's schema
SparkReturn ==
    /\ pc = "loop"
    /\ variant = "pyspark"
    /\ ~SparkInRange(i)
    /\ IF merge_result = <<>>
       THEN /\ outcome' = "ok"
            /\ final_result' = [columns |-> left.columns, rows |-> <<>>]
       ELSE LET u == UnionAll(Head(merge_result), Tail(merge_result))
            IN IF u.raised
               THEN outcome' = "AnalysisException" /\ UNCHANGED final_result
               ELSE outcome' = "ok" /\ final_result' = u.frame
    /\ pc' = "done"
    /\ UNCHANGED <<args, i, merge_result, joins>>

(* ------------------------------ the call ------------------------------ *)

\* merge_keys = {left name: right name, ...} of nk pairs, in order
MergeKeysOf(nk, same) ==
    [j \in 1..nk |-> [l |-> KeyNames[j],
                      r |-> IF same THEN KeyNames[j] ELSE AltNames[j]]]

SeqsUpTo(S, m) == UNION {[1..k -> S] : k \in 0..m}

\* a frame of the key columns, one payload column whose value in row p is
\* unit * p and, when shared, a column "note" that both frames have
FrameOf(keynames, payload, keyrows, unit, shared) ==
    [columns |-> Append(keynames, payload) \o
                 (IF shared THEN <<"note">> ELSE <<>>),
     rows    |-> [p \in 1..Len(keyrows) |->
                     Append(keyrows[p], unit * p) \o
                     (IF shared THEN <<p>> ELSE <<>>)]]

DefaultSuffix(v) == IF v = "pandas" THEN PandasSuffix ELSE SparkSuffix

Start(v, mk, lrows, rrows, shared, sfx, ms) ==
    /\ variant = v
    /\ merge_keys = mk
    /\ left = FrameOf([j \in 1..Len(mk) |-> mk[j].l], "value", lrows, 100, shared)
    /\ right = FrameOf([j \in 1..Len(mk) |-> mk[j].r], "category", rrows, 1, shared)
    /\ suffix = sfx
    /\ min_score = ms
    /\ i = Len(mk)
    /\ merge_result = <<>>
    /\ final_result = EmptyFrame
    /\ outcome = "running"
    /\ joins = 0
    /\ pc = "loop"

\* any call within the bounds with a min_score in [1, n]
InitBounded ==
    \E v \in {"pandas", "pyspark"}, nk \in 1..MaxKeys, same \in BOOLEAN :
    \E ms \in 1..nk :
    \E lrows \in SeqsUpTo([1..nk -> KeyVals], MaxRows),
       rrows \in SeqsUpTo([1..nk -> KeyVals], MaxRows) :
        Start(v, MergeKeysOf(nk, same), lrows, rrows, FALSE, DefaultSuffix(v), ms)

\* the key rows of the docstring example: (id, code) with A, B, C as 1, 2, 3
ExampleLeft == <<<<1, 1>>, <<2, 2>>>>

ExampleRight == <<<<1, 1>>, <<2, 3>>>>

\* calls on the frames of the docstring example: either naming of the right
\* keys, with or without a further column common to both frames, either
\* suffix list, any min_score from 0 to n + 1
InitExample ==
    \E v \in {"pandas", "pyspark"}, same \in BOOLEAN, shared \in BOOLEAN :
    \E sfx \in {PandasSuffix, SparkSuffix}, ms \in 0..3 :
        Start(v, MergeKeysOf(2, same), ExampleLeft, ExampleRight, shared, sfx, ms)

Init == InitBounded \/ InitExample

Next == PandasTier \/ PandasReturn \/ SparkTier \/ SparkReturn

Spec == Init /\ [][Next]_vars

(* ------------------------- vocabulary of the claims ------------------- *)

Valid == 1 <= min_score /\ min_score <= n_keys

Returned == pc = "done" /\ outcome = "ok"

\* the tier whose batch is merge_result[k]
TierOf(k) == n_keys - k + 1

Score(frame, row) == Cell(frame, row, "merge_score")

\* the (left row number, right row number) pair a joined row was built
\* from, read off the payload columns
PairOf(frame, row) ==
    <<Cell(frame, row, "value") \div 100, Cell(frame, row, "category")>>

PairsOf(frame) == [k \in 1..Len(frame.rows) |-> PairOf(frame, frame.rows[k])]

Count(cols, name) == Cardinality({k \in 1..Len(cols) : cols[k] = name})

\* C1: with 1 <= min_score <= n the joined tiers are exactly n, n-1, ...,
\* min_score: one batch per tier of [min_score, n], min_score included
C1_TiersInclusive ==
    (pc = "done" /\ Valid) =>
        /\ Len(merge_result) = n_keys - min_score + 1
        /\ \A k \in 1..Len(merge_result) :
               \A m \in 1..Len(merge_result[k].rows) :
                   Score(merge_result[k], merge_result[k].rows[m]) = TierOf(k)

\* C2: with min_score = n the call returns normally and the result is the
\* inner equality join on all n key pairs, every row scored n
C2_FullKeyJoin ==
    (pc = "done" /\ min_score = n_keys) =>
        /\ outcome = "ok"
        /\ Range(PairsOf(final_result)) =
               {pq \in (1..Len(left.rows)) \X (1..Len(right.rows)) :
                   \A j \in 1..n_keys :
                       SqlEq(Cell(left, left.rows[pq[1]], left_keys[j]),
                             Cell(right, right.rows[pq[2]], right_keys[j]))}
        /\ Len(final_result.rows) = Cardinality(Range(PairsOf(final_result)))
        /\ \A k \in 1..Len(final_result.rows) :
               Score(final_result, final_result.rows[k]) = n_keys

\* C3: for valid inputs every row of the result has a merge_score in
\* [min_score, n], equal to the tier of the batch that produced the row
C3_ScoreIsTier ==
    (Returned /\ Valid) =>
        \A k \in 1..Len(final_result.rows) :
            LET s == Score(final_result, final_result.rows[k])
                b == n_keys - s + 1
            IN /\ s \in min_score..n_keys
               /\ b \in 1..Len(merge_result)
               /\ PairOf(final_result, final_result.rows[k])
                      \in Range(PairsOf(merge_result[b]))

C3_Witness ==
    /\ Returned /\ Valid /\ min_score < n_keys
    /\ \E a, b \in 1..Len(final_result.rows) :
           /\ Score(final_result, final_result.rows[a]) = n_keys
           /\ Score(final_result, final_result.rows[b]) = min_score

\* C4: a call with min_score < 1 or min_score > n is rejected with an
\* exception before any tier join runs, and returns no rows
C4_InvalidRejected ==
    ~Valid => /\ joins = 0
              /\ pc = "done" => outcome # "ok"

\* the call of the docstring example with the variant's default suffix
IsDocExample ==
    /\ merge_keys = MergeKeysOf(2, TRUE)
    /\ left = FrameOf(<<"id", "code">>, "value", ExampleLeft, 100, FALSE)
    /\ right = FrameOf(<<"id", "code">>, "category", ExampleRight, 1, FALSE)
    /\ suffix = DefaultSuffix(variant)
    /\ min_score = 1

\* C5: the docstring example returns exactly two rows, the id=1 pair scored
\* 2 then the id=2 pair scored 1, with code as code_left and code_right
C5_DocExample ==
    (IsDocExample /\ pc = "done") =>
        /\ outcome = "ok"
        /\ final_result =
               [columns |-> <<"id", "code_left", "value", "code_right",
                              "category", "merge_score">>,
                rows    |-> << <<1, 1, 100, 1, 1, 2>>,
                               <<2, 2, 200, 3, 2, 1>> >>]

\* C6: for min_score <= t < n every row pair of the tier t+1 batch is also
\* in the tier t batch, so that a pair agreeing on all n keys is in the
\* result once for every score from n down to min_score
C6_Relaxation ==
    (Returned /\ Valid) =>
        \A k \in 1..Len(final_result.rows) :
            LET s == Score(final_result, final_result.rows[k])
            IN s > min_score =>
                   \E m \in 1..Len(final_result.rows) :
                       /\ Score(final_result, final_result.rows[m]) = s - 1
                       /\ PairOf(final_result, final_result.rows[m]) =
                              PairOf(final_result, final_result.rows[k])

\* C7: the result is the batches concatenated in descending tier order:
\* merge_score never increases along the result, and the rows of a tier
\* are that tier's batch in the batch's own order
C7_ConcatOrder ==
    Returned =>
        /\ \A a, b \in 1..Len(final_result.rows) :
               a < b => Score(final_result, final_result.rows[a]) >=
                        Score(final_result, final_result.rows[b])
        /\ \A k \in 1..Len(merge_result) :
               PairsOf([columns |-> final_result.columns,
                        rows    |-> SelectSeq(final_result.rows, LAMBDA row :
                                        Score(final_result, row) = TierOf(k))])
                   = PairsOf(merge_result[k])

C7_Witness ==
    /\ Returned
    /\ \E a, b \in 1..Len(merge_result) :
           /\ a # b
           /\ Len(merge_result[a].rows) >= 1
           /\ Len(merge_result[b].rows) >= 2
    /\ Len(final_result.rows) >= 3

\* C8: a row whose value is null in one of the first t key columns is in
\* no row pair of the tier t batch; null never matches null
C8_NullNeverMatches ==
    \A k \in 1..Len(merge_result) :
        \A m \in 1..Len(merge_result[k].rows) :
            LET pq == PairOf(merge_result[k], merge_result[k].rows[m])
            IN \A j \in 1..TierOf(k) :
                   /\ Cell(left, left.rows[pq[1]], left_keys[j]) # Null
                   /\ Cell(right, right.rows[pq[2]], right_keys[j]) # Null

\* the names both input schemas have that are no key column of merge_keys
Colliding ==
    (Range(left.columns) \cap Range(right.columns))
        \ (Range(left_keys) \cup Range(right_keys))

\* C9: every tier has the one schema: each key column once, unsuffixed,
\* under its left name; each colliding non-key column twice, with the left
\* and with the right suffix; the remaining columns; merge_score
C9_OneSchema ==
    (Returned /\ Valid) =>
        /\ \A j \in 1..n_keys : Count(final_result.columns, left_keys[j]) = 1
        /\ \A c \in Colliding :
               /\ Count(final_result.columns, c \o suffix[1]) = 1
               /\ Count(final_result.columns, c \o suffix[2]) = 1
               /\ Count(final_result.columns, c) = 0
        /\ Count(final_result.columns, "merge_score") = 1
        /\ Range(final_result.columns) =
               Range(left_keys) \cup {"value", "category", "merge_score"}
                   \cup {c \o suffix[1] : c \in Colliding}
                   \cup {c \o suffix[2] : c \in Colliding}
        /\ \A k \in 1..Len(merge_result) :
               Range(merge_result[k].columns) = Range(final_result.columns)

\* C10: with an empty left or an empty right, every valid call returns
\* normally with zero rows and a schema holding the key columns, the
\* suffixed colliding columns and merge_score
C10_EmptyInput ==
    (pc = "done" /\ Valid /\ (left.rows = <<>> \/ right.rows = <<>>)) =>
        /\ outcome = "ok"
        /\ final_result.rows = <<>>
        /\ \A j \in 1..n_keys : HasColumn(final_result.columns, left_keys[j])
        /\ \A c \in Colliding :
               /\ HasColumn(final_result.columns, c \o suffix[1])
               /\ HasColumn(final_result.columns, c \o suffix[2])
        /\ HasColumn(final_result.columns, "merge_score")

====
